---------------------------- MODULE Spec2Model ----------------------------
(***************************************************************************)
(* Model of src/src/controller/getter.rs: the local view client (Getter)   *)
(* with its token tracker last_ts, and the remote view client              *)
(* (RemoteGetter) with its per-shard fan-out / fan-in.                     *)
(***************************************************************************)
EXTENDS Integers, Sequences, FiniteSets, TLC

(***************************************************************************)
(* Bounds of the model.                                                    *)
(***************************************************************************)
\* timestamps the backlog can report are MinTimestamp..MaxTs
MaxTs == 3
\* key values are 0..MaxVal
MaxVal == 2
\* the probe counter of one transactional_lookup call saturates here
MaxProbes == 3
\* a remote client has 1..MaxShards shards
MaxShards == 3
\* a caller passes at most MaxKeys keys to one call
MaxKeys == 2
\* a shard's view holds 0..MaxSize entries
MaxSize == 2
\* shard endpoints have the addresses 1..MaxAddr
MaxAddr == 2
\* a builder names at most MaxBuildShards shards
MaxBuildShards == 2
\* at most MaxBuilds clients are built in one behaviour
MaxBuilds == 2

\* i64::min_value(): the least timestamp, the initial value of last_ts.
\* Timestamps are only ever compared, never added, so the i64 range is
\* modelled by the interval MinTimestamp..MaxTs with the same least element.
MinTimestamp == 0

Timestamps == MinTimestamp..MaxTs
KeyVals == 0..MaxVal
\* row sets a backlog entry can hold (rows are opaque to this layer)
RowSets == {<<>>, <<"row">>}

VARIABLES
    \* ---- Getter (local view client)
    generator,   \* Getter.generator: TRUE iff Some(token generator)
    last_ts,     \* Getter.last_ts
    gpc,         \* position of the caller inside Getter: "idle", "probe", "match"
    gq,          \* the key q of the call in progress / last made
    res,         \* local `res` of transactional_lookup: the last find_and reply
    gop,         \* name of the last Getter operation started
    gret,        \* what the last Getter operation returned
    gen_calls,   \* generate() calls made by the call in progress / last made
    probes,      \* find_and probes made by that call (saturating at MaxProbes)
    stale,       \* stale observations dropped by that call (saturating)
    ok_hist,     \* timestamps of the last two successful transactional results
    \* ---- RemoteGetter (remote view client) and its surroundings
    node,        \* RemoteGetter.node
    shards,      \* RemoteGetter.shards: the connections, shard i at position i + 1
    health,      \* what the endpoint of shard i answers: "ok", "err" or "fail"
    sizes,       \* the number of entries the endpoint of shard i reports
    rkeys,       \* the key list the caller passes
    rop,         \* name of the last RemoteGetter operation
    rblock,      \* the block flag of that operation
    sent,        \* requests that operation sent, in order
    rret,        \* what that operation returned
    \* ---- RemoteGetterBuilder, the connection cache and the client's other fields
    builder,     \* the RemoteGetterBuilder a caller holds
    rpcs,        \* the caller's cache: address -> connection (NoConn: vacant)
    down,        \* addresses no connection can be established to
    nconn,       \* connections opened so far (the next one gets id nconn + 1)
    opened,      \* per address, connections opened for it by shared builds
    builds,      \* clients built so far
    columns,     \* RemoteGetter.columns
    shard_addrs, \* RemoteGetter.shard_addrs
    exclusivity, \* "shared", "exclusive", or "none" while no client is built
    kept,        \* a clone of an earlier shared client the caller still holds
    \* ---- the arguments and the result of Getter::new
    readers,     \* the (node, shard) pairs registered in the readers map
    view,        \* node, sharded, and what ingredients[node] says of the view
    handle,      \* Getter.handle
    newret,      \* "unbuilt" before the call, then "none" or "some"
    \* ---- a LocalOrNot value on its way from make to take
    lon          \* what was wrapped, the wrapper, and what take returned

gvars == <<generator, last_ts, gpc, gq, res, gop, gret, gen_calls, probes,
           stale, ok_hist>>

rvars == <<node, shards, health, sizes, rkeys, rop, rblock, sent, rret>>

bvars == <<builder, rpcs, down, nconn, opened, builds, columns, shard_addrs,
           exclusivity, kept>>

nvars == <<readers, view, handle, newret>>

wvars == <<lon>>

vars == <<gvars, rvars, bvars, nvars, wvars>>

(***************************************************************************)
(* External collaborators of Getter.                                       *)
(***************************************************************************)
\* backlog::ReadHandle::find_and: Err(()) or Ok((Option<rows>, ts))
NoReply == [tag |-> "none", found |-> FALSE, rows |-> <<>>, ts |-> MinTimestamp]
FindAndReplies ==
    {[tag |-> "err", found |-> FALSE, rows |-> <<>>, ts |-> MinTimestamp]}
    \cup {[tag |-> "ok", found |-> FALSE, rows |-> <<>>, ts |-> t] : t \in Timestamps}
    \cup {[tag |-> "ok", found |-> TRUE, rows |-> r, ts |-> t] :
              r \in RowSets, t \in Timestamps}

\* checktable::TokenGenerator::generate(ts, key): a token bound to (ts, key)
generate(ts, q) == [ts |-> ts, key |-> q]

NoToken == [ts |-> MinTimestamp - 1, key |-> 0 - 1]

\* return values of Getter operations
GNone == [tag |-> "none", rows |-> <<>>, token |-> NoToken, some |-> FALSE, n |-> 0]
GErr == [tag |-> "err", rows |-> <<>>, token |-> NoToken, some |-> FALSE, n |-> 0]
GOk(rows, token, some) ==
    [tag |-> "ok", rows |-> rows, token |-> token, some |-> some, n |-> 0]
GLen(n) == [tag |-> "len", rows |-> <<>>, token |-> NoToken, some |-> FALSE, n |-> n]
GBool(b) == [tag |-> "bool", rows |-> <<>>, token |-> NoToken, some |-> b, n |-> 0]

\* saturating count
Bump(n) == IF n < MaxProbes THEN n + 1 ELSE n

\* res.unwrap_or_else(Vec::new)
unwrap_or_else_new(r) == IF r.found THEN r.rows ELSE <<>>

\* keep the last two accepted timestamps
Remember(h, ts) == IF Len(h) < 2 THEN Append(h, ts) ELSE <<h[2], ts>>

(***************************************************************************)
(* Getter                                                                  *)
(***************************************************************************)
\* the nodes that have readers; Getter::new is called for the first
ReaderNodes == {5, 6}

\* the backlog handle registered for (node, shard)
rh(n, shard) == [node |-> n, shard |-> shard]

\* no Getter.handle
NoHandle == [tag |-> "none", getters |-> <<>>]

\* vr.get(&(node, shard)) is Some
RegisteredShard0(vr, n, shard) == <<n, 0>> \in vr
Registered(vr, n, shard) == <<n, shard>> \in vr

\* for shard in 0..shards { match vr.get(&(node, shard)).cloned() { .. } }
RECURSIVE ShardedGetters(_, _, _, _, _)
ShardedGetters(vr, n, shard, nshards, getters) ==
    IF shard = nshards THEN [tag |-> "Sharded", getters |-> getters]
    ELSE IF Registered(vr, n, shard)
         THEN ShardedGetters(vr, n, shard + 1, nshards, Append(getters, rh(n, shard)))
         ELSE NoHandle

\* let rh = if sharded { .. } else { .. }; NoHandle stands for return None
NewHandle(n, sharded, vr, ingredients) ==
    IF sharded
    THEN ShardedGetters(vr, n, 0, ingredients.shards, <<>>)
    ELSE IF Registered(vr, n, 0)
         THEN [tag |-> "Singleton", getters |-> <<rh(n, 0)>>]
         ELSE NoHandle

\* what ingredients[node] says: the shard count, and a token generator exactly
\* when the view is transactional (the assert_eq! of Getter::new)
Views ==
    {v \in [node : {5}, sharded : BOOLEAN, shards : 1..MaxShards,
            is_transactional : BOOLEAN, token_generator : BOOLEAN] :
        v.is_transactional = v.token_generator}

\* the arguments of Getter::new, no Getter made yet
NewArgs ==
    /\ readers \in SUBSET (ReaderNodes \X (0..(MaxShards - 1)))
    /\ view \in Views
    /\ handle = NoHandle
    /\ newret = "unbuilt"
    /\ generator = FALSE
    /\ last_ts = MaxTs
    /\ gpc = "idle"
    /\ gq = 0
    /\ res = NoReply
    /\ gop = "none"
    /\ gret = GNone
    /\ gen_calls = <<>>
    /\ probes = 0
    /\ stale = 0
    /\ ok_hist = <<>>

\* Getter::new
GetterNewCall ==
    /\ newret = "unbuilt"
    /\ LET made == NewHandle(view.node, view.sharded, readers, view)
       IN IF made = NoHandle
          THEN /\ newret' = "none"
               /\ UNCHANGED <<generator, last_ts, handle, gop>>
          ELSE /\ newret' = "some"
               /\ generator' = view.token_generator
               /\ handle' = made
               /\ last_ts' = MinTimestamp
               /\ gop' = "new"
    /\ UNCHANGED <<gpc, gq, res, gret, gen_calls, probes, stale, ok_hist>>
    /\ UNCHANGED <<readers, view>>
    /\ UNCHANGED <<rvars, bvars, wvars>>

\* the arguments a Getter of an unsharded view was made from
NewDone(gen) ==
    /\ readers = {<<5, 0>>}
    /\ view = [node |-> 5, sharded |-> FALSE, shards |-> 1,
               is_transactional |-> gen, token_generator |-> gen]
    /\ handle = NewHandle(5, FALSE, readers, view)
    /\ newret = "some"

\* Getter::new: last_ts: i64::min_value(); the generator is Some or None
GetterNew(gen) ==
    /\ NewDone(gen)
    /\ generator = gen
    /\ last_ts = MinTimestamp
    /\ gpc = "idle"
    /\ gq = 0
    /\ res = NoReply
    /\ gop = "new"
    /\ gret = GNone
    /\ gen_calls = <<>>
    /\ probes = 0
    /\ stale = 0
    /\ ok_hist = <<>>

\* the guard of the first match arm: Ok((_, ts)) if ts < self.last_ts
IsStaleLe(ts, last) == ts <= last
IsStaleNever(ts, last) == FALSE
IsStale(ts, last) == ts < last

\* the assignment self.last_ts = ts of the accept arm
AcceptTsKeep(ts, last) == last
AcceptTs(ts, last) == ts

\* Getter::len
GetterLen(n) ==
    /\ gpc = "idle"
    /\ gop' = "len"
    /\ gret' = GLen(n)
    /\ UNCHANGED <<generator, last_ts, gpc, gq, res, gen_calls, probes, stale, ok_hist>>
    /\ UNCHANGED <<rvars, bvars, nvars, wvars>>

\* Getter::supports_transactions
SupportsTransactions ==
    /\ gpc = "idle"
    /\ gop' = "supports_transactions"
    /\ gret' = GBool(generator)
    /\ UNCHANGED <<generator, last_ts, gpc, gq, res, gen_calls, probes, stale, ok_hist>>
    /\ UNCHANGED <<rvars, bvars, nvars, wvars>>

\* Getter::lookup_map: find_and(q, f, block).map(|r| r.0)
LookupMap(q, reply) ==
    /\ gpc = "idle"
    /\ gop' = "lookup_map"
    /\ gq' = q
    /\ gret' = IF reply.tag = "err" THEN GErr
               ELSE GOk(reply.rows, NoToken, reply.found)
    /\ UNCHANGED <<generator, last_ts, gpc, res, gen_calls, probes, stale, ok_hist>>
    /\ UNCHANGED <<rvars, bvars, nvars, wvars>>

LookupTracksTs(q, reply) ==
    /\ gpc = "idle"
    /\ gop' = "lookup"
    /\ gq' = q
    /\ gret' = IF reply.tag = "err" THEN GErr
               ELSE GOk(unwrap_or_else_new(reply), NoToken, TRUE)
    /\ last_ts' = IF reply.tag = "err" THEN last_ts ELSE reply.ts
    /\ UNCHANGED <<generator, gpc, res, gen_calls, probes, stale, ok_hist>>
    /\ UNCHANGED <<rvars, bvars, nvars, wvars>>

\* Getter::lookup: lookup_map(..).map(|r| r.unwrap_or_else(Vec::new))
Lookup(q, reply) ==
    /\ gpc = "idle"
    /\ gop' = "lookup"
    /\ gq' = q
    /\ gret' = IF reply.tag = "err" THEN GErr
               ELSE GOk(unwrap_or_else_new(reply), NoToken, TRUE)
    /\ UNCHANGED <<generator, last_ts, gpc, res, gen_calls, probes, stale, ok_hist>>
    /\ UNCHANGED <<rvars, bvars, nvars, wvars>>

\* match self.generator { None => Err(()), .. }
NoneArmProbes ==
    /\ gpc' = "probe"
    /\ gret' = GNone
NoneArm ==
    /\ gpc' = "idle"
    /\ gret' = GErr

\* match self.generator { Some(ref g) => loop { .. } }
SomeArm ==
    /\ gpc' = "probe"
    /\ gret' = GNone

\* Getter::transactional_lookup, entry: match self.generator
TransactionalLookup(q) ==
    /\ gpc = "idle"
    /\ gop' = "transactional_lookup"
    /\ gq' = q
    /\ gen_calls' = <<>>
    /\ probes' = 0
    /\ stale' = 0
    /\ res' = NoReply
    /\ IF generator THEN SomeArm ELSE NoneArm
    /\ UNCHANGED <<generator, last_ts, ok_hist>>
    /\ UNCHANGED <<rvars, bvars, nvars, wvars>>

\* the blocking probe self.handle.find_and(q, .., true) returns `reply`
FindAnd(reply) ==
    /\ gpc = "probe"
    /\ res' = reply
    /\ probes' = Bump(probes)
    /\ gpc' = "match"
    /\ UNCHANGED <<generator, last_ts, gq, gop, gret, gen_calls, stale, ok_hist>>
    /\ UNCHANGED <<rvars, bvars, nvars, wvars>>

\* Ok((_, ts)) if ts < self.last_ts => {}: nothing is done, the loop probes again
StaleArm ==
    /\ gpc' = "probe"
    /\ stale' = Bump(stale)
    /\ UNCHANGED <<last_ts, gen_calls, gret, ok_hist>>

\* Ok((res, ts)) => { self.last_ts = ts; let token = g.generate(ts, q); break Ok(..) }
AcceptArm ==
    /\ last_ts' = AcceptTs(res.ts, last_ts)
    /\ gen_calls' = Append(gen_calls, <<res.ts, gq>>)
    /\ gret' = GOk(unwrap_or_else_new(res), generate(res.ts, gq), TRUE)
    /\ ok_hist' = Remember(ok_hist, res.ts)
    /\ gpc' = "idle"
    /\ UNCHANGED stale

\* Err(e) => break Err(e)
ErrArmRetries ==
    /\ gpc' = "probe"
    /\ UNCHANGED <<last_ts, gen_calls, gret, stale, ok_hist>>
ErrArm ==
    /\ gret' = GErr
    /\ gpc' = "idle"
    /\ UNCHANGED <<last_ts, gen_calls, stale, ok_hist>>

\* match res { .. } on the reply of the probe
MatchRes ==
    /\ gpc = "match"
    /\ IF res.tag = "ok" /\ IsStale(res.ts, last_ts) THEN StaleArm
       ELSE IF res.tag = "ok" THEN AcceptArm
       ELSE ErrArm
    /\ UNCHANGED <<generator, gq, res, gop, probes>>
    /\ UNCHANGED <<rvars, bvars, nvars, wvars>>

(***************************************************************************)
(* RemoteGetter                                                            *)
(***************************************************************************)
\* keys are Vec<DataType>: the single-value keys and one composite key
Keys == {<<v>> : v \in KeyVals} \cup {<<0, 1>>}
KeyLists == UNION {[1..k -> Keys] : k \in 0..MaxKeys}

\* what a shard's endpoint does with a request: reply Ok, reply Err(()), or the
\* send fails (disconnection, malformed reply) and .unwrap() panics
Statuses == {"ok", "err", "fail"}

\* the view id of the client
NodeIds == {5}

\* connection lists of 1..MaxShards shards; the is_local flags are all equal
\* or alternate
ShardLists ==
    UNION {{[i \in 1..n |-> [is_local |-> IF alt THEN b = (i % 2 = 1) ELSE b]] :
                b \in BOOLEAN, alt \in BOOLEAN} : n \in 1..MaxShards}

\* dataflow::shard_by(value, shards): deterministic, in [0, shards)
shard_by(v, n) == v % n

\* ReadQuery::Size
SizeShard0(target) == [tag |-> "Size", target |-> <<target[1], 0>>]
Size(target) == [tag |-> "Size", target |-> target]

\* ReadQuery::Normal / ReadQuery::WithToken
Normal(target, keys, block) ==
    [tag |-> "Normal", target |-> target, keys |-> keys, block |-> block]
WithToken(target, keys) ==
    [tag |-> "WithToken", target |-> target, keys |-> keys]

\* LocalBypass::make(Box::new(t)): the wrapper holds the box, not the value
LocalBypassMake(t) == [boxed |-> t]

\* *l.take(): the value in the box
LocalBypassTake(l) == l.boxed

\* LocalOrNot::make
make(t, local) ==
    IF local THEN [variant |-> "Local", inner |-> LocalBypassMake(t)]
    ELSE [variant |-> "Not", inner |-> t]

\* LocalOrNot::is_local
is_local(w) == IF w.variant = "Local" THEN TRUE ELSE FALSE

\* LocalOrNot::take
takeUnopened(w) == w.inner
take(w) ==
    IF w.variant = "Local" THEN LocalBypassTake(w.inner)
    ELSE w.inner

\* no LocalOrNot value made yet
NoWrapper == [state |-> "none"]

\* the ReadQuery values that get wrapped
Queries ==
    {Normal(<<5, i>>, keys, block) : i \in 0..1, keys \in KeyLists, block \in BOOLEAN}
    \cup {WithToken(<<5, i>>, keys) : i \in 0..1, keys \in KeyLists}
    \cup {Size(<<5, i>>) : i \in 0..1}

\* LocalOrNot::make(t, local) by the sender
Make(t, local) ==
    /\ lon' = [state |-> "made", t |-> t, local |-> local, w |-> make(t, local)]
    /\ UNCHANGED <<gvars, rvars, bvars, nvars>>

\* LocalOrNot::take(self) by the receiver, which consumes the wrapper
Take ==
    /\ lon.state = "made"
    /\ lon' = [state |-> "taken", t |-> lon.t, local |-> lon.local, out |-> take(lon.w)]
    /\ UNCHANGED <<gvars, rvars, bvars, nvars>>

\* let is_local = shard.is_local(); shard.send(&LocalOrNot::make(query, is_local))
\* on connection self.shards[shardi]
SendFirstFlag(shardi, query) ==
    [conn |-> shardi, msg |-> make(query, shards[1].is_local)]
Send(shardi, query) ==
    [conn |-> shardi, msg |-> make(query, shards[shardi + 1].is_local)]

\* the row set shard shardi holds for key (opaque to the client)
Rows(shardi, key) == <<shardi, key>>

\* ReadReply::Normal(Ok(..)): one row set per key of the request, in order
NormalReply(shardi, keys) == [j \in 1..Len(keys) |-> Rows(shardi, keys[j])]

\* ReadReply::WithToken(Ok(..)): one (row set, token) pair per key, in order
WithTokenReply(shardi, keys) ==
    [j \in 1..Len(keys) |-> <<Rows(shardi, keys[j]), "token">>]

\* return values of RemoteGetter operations; a panic returns nothing
RNone == [tag |-> "none", rows |-> <<>>]
ROk(rows) == [tag |-> "ok", rows |-> rows]
RErr == [tag |-> "err", rows |-> <<>>]
RPanic == [tag |-> "panic", rows |-> <<>>]
RLen(n) == [tag |-> "len", rows |-> <<>>, n |-> n]

\* the state the fan-out closure works on: requests sent, rows collected,
\* `err`, and whether a panic stopped the iteration
Acc0 == [sent |-> <<>>, rows |-> <<>>, err |-> FALSE, panic |-> FALSE, stop |-> FALSE]

\* keys.iter().all(|k| k.len() == 1)
AllSingleUnchecked(keys) == TRUE
AllSingle(keys) == \A j \in 1..Len(keys) : Len(keys[j]) = 1

\* let shard = shard_by(&key[0], self.shards.len()); shard_queries[shard].push(key)
PushFirstShard(queries, key, n) == [queries EXCEPT ![0] = Append(@, key)]
Push(queries, key, n) ==
    [queries EXCEPT ![shard_by(key[1], n)] = Append(@, key)]

\* let mut shard_queries = vec![Vec::new(); n]; for key in keys { .. }
RECURSIVE BucketKeys(_, _, _)
BucketKeys(keys, queries, n) ==
    IF keys = <<>> THEN queries
    ELSE BucketKeys(Tail(keys), Push(queries, Head(keys), n), n)

shard_queries(keys, n) == BucketKeys(keys, [i \in 0..(n - 1) |-> <<>>], n)

\* multi_lookup: .filter(|&(_, ref keys)| !keys.is_empty())
MultiLookupDueAlways(keys) == TRUE
MultiLookupDue(keys) == keys # <<>>

\* transactional_multi_lookup: .enumerate() is followed by no filter
TransactionalDue(keys) == TRUE

Due(kind, keys) ==
    IF kind = "Normal" THEN MultiLookupDue(keys) ELSE TransactionalDue(keys)

Query(kind, target, keys, block) ==
    IF kind = "Normal" THEN Normal(target, keys, block) ELSE WithToken(target, keys)

OkReply(kind, shardi, keys) ==
    IF kind = "Normal" THEN NormalReply(shardi, keys) ELSE WithTokenReply(shardi, keys)

\* .send(..).unwrap() on a transport failure: the call panics
SendFailsAsErr(acc, req) ==
    [acc EXCEPT !.sent = Append(@, req), !.err = TRUE]
SendFails(acc, req) ==
    [acc EXCEPT !.sent = Append(@, req), !.panic = TRUE, !.stop = TRUE]

\* ReadReply::Normal(Err(())) => { err = true; Vec::new() }
ErrReplyStops(acc, req) ==
    [acc EXCEPT !.sent = Append(@, req), !.err = TRUE, !.stop = TRUE]
ErrReply(acc, req) ==
    [acc EXCEPT !.sent = Append(@, req), !.err = TRUE]

\* ReadReply::Normal(Ok(rows)) => rows, appended by flat_map(..).collect()
OkReplyPrepended(acc, req, rows) ==
    [acc EXCEPT !.sent = Append(@, req), !.rows = rows \o @]
OkReplyCollected(acc, req, rows) ==
    [acc EXCEPT !.sent = Append(@, req), !.rows = @ \o rows]

\* shard_queries.into_iter().enumerate()[.filter(..)].flat_map(|(shardi, keys)| ..)
RECURSIVE FanOut(_, _, _, _, _, _)
FanOut(kind, queries, shardi, n, block, acc) ==
    IF shardi = n \/ acc.stop THEN acc
    ELSE IF ~Due(kind, queries[shardi])
    THEN FanOut(kind, queries, shardi + 1, n, block, acc)
    ELSE LET req == Send(shardi, Query(kind, <<node, shardi>>, queries[shardi], block))
             next == CASE health[shardi + 1] = "fail" -> SendFails(acc, req)
                       [] health[shardi + 1] = "err" -> ErrReply(acc, req)
                       [] OTHER -> OkReplyCollected(acc, req,
                                       OkReply(kind, shardi, queries[shardi]))
         IN FanOut(kind, queries, shardi + 1, n, block, next)

\* if err { Err(()) } else { Ok(rows) }
Collect(acc) ==
    IF acc.panic THEN RPanic
    ELSE IF acc.err THEN RErr
    ELSE ROk(acc.rows)

\* the branch self.shards.len() == 1: one request with all the keys to shard 0,
\* whose reply is returned as it is
SingleShard(kind, keys, block) ==
    LET req == Send(0, Query(kind, <<node, 0>>, keys, block))
    IN [sent |-> <<req>>,
        ret |-> CASE health[1] = "fail" -> RPanic
                  [] health[1] = "err" -> RErr
                  [] OTHER -> ROk(OkReply(kind, 0, keys))]

\* the else branch: assert, bucket the keys, fan out, collect
MultiShard(kind, keys, block) ==
    IF ~AllSingle(keys) THEN [sent |-> <<>>, ret |-> RPanic]
    ELSE LET n == Len(shards)
             acc == FanOut(kind, shard_queries(keys, n), 0, n, block, Acc0)
         IN [sent |-> acc.sent, ret |-> Collect(acc)]

Call(kind, keys, block) ==
    IF Len(shards) = 1 THEN SingleShard(kind, keys, block)
    ELSE MultiShard(kind, keys, block)

(***************************************************************************)
(* RemoteGetterBuilder: building clients over a cache of connections.      *)
(***************************************************************************)

\* Option<u16>::None for the builder's local_port
NoPort == 0

\* the local ports a connection can be bound to
Ports == {1, 2}

Addrs == 1..MaxAddr

\* the view's column names
Cols == <<"id", "title">>

\* the endpoint at address 1 lives in the caller's process
IsLocalAddr(a) == a = 1

\* RemoteGetterBuilder.shards: (address, is_local) per shard; several shards
\* may be served from one address
BuilderShardLists ==
    UNION {[1..n -> {<<a, IsLocalAddr(a)>> : a \in Addrs}] : n \in 1..MaxBuildShards}

\* a vacant entry of the cache
NoConn == [id |-> 0]

\* no client (before the first build, and nothing cloned yet)
NoClient == [exclusivity |-> "none"]

\* RpcClient::connect_from(sport, addr, is_local): the connection is bound to
\* sport when one is given and to a port of the system's choosing otherwise
connect_from(id, sport, addr, local, os) ==
    [id |-> id, addr |-> addr, is_local |-> local,
     port |-> IF sport = NoPort THEN os ELSE sport]

\* the port of a connection whose port the system chose and nothing reads
Ephemeral == 0 - 1

\* RpcClient::connect(addr, is_local): always a port of the system's choosing
connect(id, addr, local) == connect_from(id, NoPort, addr, local, Ephemeral)

\* rpcs.entry(*addr) is Entry::Occupied
OccupiedNever(cache, addr) == FALSE
Occupied(cache, addr) == cache[addr] # NoConn

\* Entry::Occupied(e) => Rc::clone(e.get()): the cached connection is collected
OccupiedArmSkips(st, addr) == st
OccupiedArm(st, addr) == [st EXCEPT !.conns = Append(@, st.rpcs[addr])]

\* if sport.is_none() { *sport = Some(c.local_addr().unwrap().port()); }
RecordPortNever(sport, c) == sport
RecordPort(sport, c) == IF sport = NoPort THEN c.port ELSE sport

\* the closure of build, applied to the shards in order; st carries the cache,
\* the builder's local_port and the connections collected so far; os[i] is the
\* port the system would choose for a connection opened for shard i
RECURSIVE BuildConns(_, _, _, _)
BuildConns(bshards, i, os, st) ==
    IF i > Len(bshards) \/ st.panic THEN st
    ELSE LET addr == bshards[i][1]
             local == bshards[i][2]
             c == connect_from(st.nconn + 1, st.sport, addr, local, os[i])
         IN BuildConns(bshards, i + 1, os,
                IF Occupied(st.rpcs, addr)
                THEN OccupiedArm(st, addr)
                ELSE IF addr \in down
                THEN [st EXCEPT !.panic = TRUE]
                ELSE [st EXCEPT !.sport = RecordPort(@, c),
                                !.rpcs[addr] = c,
                                !.conns = Append(@, c),
                                !.nconn = @ + 1,
                                !.opened[addr] = @ + 1])

\* the closure of build_exclusive, applied to the shards in order
RECURSIVE ExclusiveConns(_, _, _)
ExclusiveConns(bshards, i, st) ==
    IF i > Len(bshards) \/ st.panic THEN st
    ELSE LET addr == bshards[i][1]
             local == bshards[i][2]
         IN ExclusiveConns(bshards, i + 1,
                IF addr \in down
                THEN [st EXCEPT !.panic = TRUE]
                ELSE [st EXCEPT !.conns = Append(@, connect(st.nconn + 1, addr, local)),
                                !.nconn = @ + 1])

\* the RemoteGetter { .. } a build returns, or the panic of a failed connect
Built(kind, b, st, excl) ==
    /\ rop' = kind
    /\ rblock' = FALSE
    /\ sent' = <<>>
    /\ builds' = builds + 1
    /\ nconn' = st.nconn
    /\ IF st.panic
       THEN /\ rret' = RPanic
            /\ UNCHANGED <<node, shards, health, sizes, columns, shard_addrs, exclusivity>>
       ELSE /\ rret' = [tag |-> "built", rows |-> <<>>]
            /\ node' = b.node
            /\ columns' = b.columns
            /\ shard_addrs' = b.shards
            /\ shards' = st.conns
            /\ exclusivity' = excl
            /\ health' = [i \in 1..Len(b.shards) |-> "ok"]
            /\ sizes' = [i \in 1..Len(b.shards) |-> i]
    /\ UNCHANGED <<rkeys, builder, down, kept>>
    /\ UNCHANGED <<gvars, nvars, wvars>>

\* RemoteGetterBuilder::build
Build(os) ==
    /\ builds < MaxBuilds
    /\ LET st == BuildConns(builder.shards, 1, os,
                    [rpcs |-> rpcs, sport |-> builder.local_port, conns |-> <<>>,
                     nconn |-> nconn, opened |-> opened, panic |-> FALSE])
       IN /\ rpcs' = st.rpcs
          /\ opened' = st.opened
          /\ Built("build", builder, st, "shared")

\* RemoteGetterBuilder::build_exclusive
BuildExclusive ==
    /\ builds < MaxBuilds
    /\ LET st == ExclusiveConns(builder.shards, 1,
                    [conns |-> <<>>, nconn |-> nconn, panic |-> FALSE])
       IN /\ Built("build_exclusive", builder, st, "exclusive")
          /\ UNCHANGED <<rpcs, opened>>

\* RemoteGetterBuilder::with_local_port
WithLocalPort(port) ==
    /\ builder' = [builder EXCEPT !.local_port = port]
    /\ rop' = "with_local_port"
    /\ rblock' = FALSE
    /\ sent' = <<>>
    /\ rret' = RNone
    /\ UNCHANGED <<node, shards, health, sizes, rkeys>>
    /\ UNCHANGED <<rpcs, down, nconn, opened, builds, columns, shard_addrs, exclusivity, kept>>
    /\ UNCHANGED <<gvars, nvars, wvars>>

\* RemoteGetter::<SharedConnection>::into_exclusive
IntoExclusiveKeepsConns ==
    /\ exclusivity = "shared"
    /\ builds < MaxBuilds
    /\ Built("into_exclusive",
             [node |-> node, columns |-> columns, shards |-> shard_addrs],
             [conns |-> shards, nconn |-> nconn, panic |-> FALSE], "exclusive")
    /\ UNCHANGED <<rpcs, opened>>
IntoExclusive ==
    /\ exclusivity = "shared"
    /\ builds < MaxBuilds
    /\ LET b == [node |-> node, local_port |-> NoPort, columns |-> columns,
                 shards |-> shard_addrs]
           st == ExclusiveConns(b.shards, 1,
                    [conns |-> <<>>, nconn |-> nconn, panic |-> FALSE])
       IN /\ Built("into_exclusive", b, st, "exclusive")
          /\ UNCHANGED <<rpcs, opened>>

\* Clone for RemoteGetter<SharedConnection>
Clone ==
    /\ exclusivity = "shared"
    /\ kept' = [node |-> node, columns |-> columns, shards |-> shards,
                shard_addrs |-> shard_addrs, exclusivity |-> "shared"]
    /\ rop' = "clone"
    /\ rblock' = FALSE
    /\ sent' = <<>>
    /\ rret' = RNone
    /\ UNCHANGED <<node, shards, health, sizes, rkeys>>
    /\ UNCHANGED <<builder, rpcs, down, nconn, opened, builds, columns, shard_addrs, exclusivity>>
    /\ UNCHANGED <<gvars, nvars, wvars>>

\* RemoteGetter::columns
Columns ==
    /\ exclusivity # "none"
    /\ rop' = "columns"
    /\ rblock' = FALSE
    /\ sent' = <<>>
    /\ rret' = [tag |-> "columns", rows |-> columns]
    /\ UNCHANGED <<node, shards, health, sizes, rkeys>>
    /\ UNCHANGED bvars
    /\ UNCHANGED <<gvars, nvars, wvars>>

\* the builder fields of a client that build_exclusive made of the endpoints
\* at the addresses 1..Len(shards)
BuiltParked ==
    /\ shard_addrs = [i \in 1..Len(shards) |-> <<i, shards[i].is_local>>]
    /\ columns = Cols
    /\ exclusivity = "exclusive"
    /\ builder = [node |-> node, columns |-> columns, shards |-> shard_addrs,
                  local_port |-> NoPort]
    /\ rpcs = [a \in Addrs |-> NoConn]
    /\ down = {}
    /\ nconn = Len(shards)
    /\ opened = [a \in Addrs |-> 0]
    /\ builds = 1
    /\ kept = NoClient

\* a cache as earlier builds for other views left it: empty, or holding the
\* connection to the endpoint at address 1, bound to port 1
Caches ==
    {[a \in Addrs |-> NoConn],
     [a \in Addrs |-> IF a = 1 THEN connect_from(1, 1, 1, IsLocalAddr(1), 1) ELSE NoConn]}

\* a caller holding a builder and a cache, no client built yet
BuilderNew ==
    /\ node \in NodeIds
    /\ shards = <<>>
    /\ health = <<>>
    /\ sizes = <<>>
    /\ rkeys = <<(<<1>>)>>
    /\ rop = "new"
    /\ rblock = FALSE
    /\ sent = <<>>
    /\ rret = RNone
    /\ lon = NoWrapper
    /\ builder \in [node : {node}, columns : {Cols}, shards : BuilderShardLists,
                    local_port : {NoPort}]
    /\ rpcs \in Caches
    /\ down \in {{}} \cup {{a} : a \in Addrs}
    /\ nconn = Cardinality({a \in Addrs : rpcs[a] # NoConn})
    /\ opened = [a \in Addrs |-> IF rpcs[a] # NoConn THEN 1 ELSE 0]
    /\ builds = 0
    /\ columns = <<>>
    /\ shard_addrs = <<>>
    /\ exclusivity = "none"
    /\ kept = NoClient

\* a client as RemoteGetterBuilder::build / build_exclusive leave it, the key
\* list a caller holds and the condition of the shard endpoints
RemoteNew ==
    /\ node \in NodeIds
    /\ shards \in ShardLists
    /\ health \in [1..Len(shards) -> Statuses]
    /\ sizes = [i \in 1..Len(shards) |-> i]
    /\ rkeys \in KeyLists
    /\ rop = "new"
    /\ rblock = FALSE
    /\ sent = <<>>
    /\ rret = RNone
    /\ lon = NoWrapper
    /\ BuiltParked

\* the remote side while only the Getter is exercised
RemoteParked ==
    /\ node = 5
    /\ shards = <<[is_local |-> FALSE]>>
    /\ health = <<"ok">>
    /\ sizes = <<0>>
    /\ rkeys = <<>>
    /\ rop = "new"
    /\ rblock = FALSE
    /\ sent = <<>>
    /\ rret = RNone
    /\ lon = NoWrapper
    /\ BuiltParked

\* the shards and what they hold while only len is exercised
LenNew ==
    /\ node \in NodeIds
    /\ shards \in ShardLists
    /\ health \in [1..Len(shards) -> Statuses]
    /\ sizes \in [1..Len(shards) -> 0..MaxSize]
    /\ rkeys = <<>>
    /\ rop = "new"
    /\ rblock = FALSE
    /\ sent = <<>>
    /\ rret = RNone
    /\ lon = NoWrapper
    /\ BuiltParked

\* ReadReply::Size(rows) => acc + rows
AddSizeFirstOnly(acc, req, rows) ==
    [acc EXCEPT !.sent = Append(@, req), !.len = IF @ = 0 THEN rows ELSE @]
AddSize(acc, req, rows) ==
    [acc EXCEPT !.sent = Append(@, req), !.len = @ + rows]

\* (0..self.shards.len()).into_iter().fold(0, |acc, shardi| ..)
RECURSIVE LenFold(_, _, _)
LenFold(shardi, n, acc) ==
    IF shardi = n \/ acc.panic THEN acc
    ELSE LET req == Send(shardi, Size(<<node, shardi>>))
         IN LenFold(shardi + 1, n,
                IF health[shardi + 1] = "fail"
                THEN [acc EXCEPT !.sent = Append(@, req), !.panic = TRUE]
                ELSE AddSize(acc, req, sizes[shardi + 1]))

\* the two branches of len: one Size to shard 0, or the fold over all shards
LenCall ==
    IF Len(shards) = 1
    THEN [sent |-> <<Send(0, Size(<<node, 0>>))>>,
          ret |-> IF health[1] = "fail" THEN RPanic ELSE RLen(sizes[1])]
    ELSE LET acc == LenFold(0, Len(shards), [sent |-> <<>>, len |-> 0, panic |-> FALSE])
         IN [sent |-> acc.sent,
             ret |-> IF acc.panic THEN RPanic ELSE RLen(acc.len)]

\* RemoteGetter::len
RemoteLen ==
    /\ exclusivity # "none"
    /\ rop' = "len"
    /\ rblock' = FALSE
    /\ sent' = LenCall.sent
    /\ rret' = LenCall.ret
    /\ UNCHANGED <<node, shards, health, sizes, rkeys>>
    /\ UNCHANGED <<gvars, bvars, nvars, wvars>>

\* RemoteGetter::multi_lookup
MultiLookup(block) ==
    /\ exclusivity # "none"
    /\ rop' = "multi_lookup"
    /\ rblock' = block
    /\ LET out == Call("Normal", rkeys, block)
       IN /\ sent' = out.sent
          /\ rret' = out.ret
    /\ UNCHANGED <<node, shards, health, sizes, rkeys>>
    /\ UNCHANGED <<gvars, bvars, nvars, wvars>>

\* RemoteGetter::transactional_multi_lookup
TransactionalMultiLookup ==
    /\ exclusivity # "none"
    /\ rop' = "transactional_multi_lookup"
    /\ rblock' = FALSE
    /\ LET out == Call("WithToken", rkeys, FALSE)
       IN /\ sent' = out.sent
          /\ rret' = out.ret
    /\ UNCHANGED <<node, shards, health, sizes, rkeys>>
    /\ UNCHANGED <<gvars, bvars, nvars, wvars>>

\* .map(|rs| rs.into_iter().next().unwrap()): the first group of an Ok result
\* (a panic if there is none); Err(()) stays Err(())
ExtractNothing(ret) == ret
ExtractFirst(ret) ==
    IF ret.tag # "ok" THEN ret
    ELSE IF ret.rows = <<>> THEN RPanic
    ELSE ROk(Head(ret.rows))

\* RemoteGetter::lookup: self.multi_lookup(vec![Vec::from(key)], block).map(..)
\* for the caller's single key
RemoteLookup(block) ==
    /\ exclusivity # "none"
    /\ Len(rkeys) = 1
    /\ rop' = "lookup"
    /\ rblock' = block
    /\ LET out == Call("Normal", <<rkeys[1]>>, block)
       IN /\ sent' = out.sent
          /\ rret' = ExtractFirst(out.ret)
    /\ UNCHANGED <<node, shards, health, sizes, rkeys>>
    /\ UNCHANGED <<gvars, bvars, nvars, wvars>>

\* RemoteGetter::transactional_lookup:
\* self.transactional_multi_lookup(vec![Vec::from(key)]).map(..)
RemoteTransactionalLookup ==
    /\ exclusivity # "none"
    /\ Len(rkeys) = 1
    /\ rop' = "transactional_lookup"
    /\ rblock' = FALSE
    /\ LET out == Call("WithToken", <<rkeys[1]>>, FALSE)
       IN /\ sent' = out.sent
          /\ rret' = ExtractFirst(out.ret)
    /\ UNCHANGED <<node, shards, health, sizes, rkeys>>
    /\ UNCHANGED <<gvars, bvars, nvars, wvars>>

RemoteNext ==
    \/ RemoteLen
    \/ \E block \in BOOLEAN : MultiLookup(block)
    \/ TransactionalMultiLookup
    \/ \E block \in BOOLEAN : RemoteLookup(block)
    \/ RemoteTransactionalLookup

GetterNext ==
    \/ \E n \in 0..1 : GetterLen(n)
    \/ SupportsTransactions
    \/ \E q \in KeyVals, r \in FindAndReplies : LookupMap(q, r)
    \/ \E q \in KeyVals, r \in FindAndReplies : Lookup(q, r)
    \/ \E q \in KeyVals : TransactionalLookup(q)
    \/ \E r \in FindAndReplies : FindAnd(r)
    \/ MatchRes

GetterInit == (\E gen \in BOOLEAN : GetterNew(gen)) /\ RemoteParked

GetterSpec == GetterInit /\ [][GetterNext]_vars

RemoteInit == GetterNew(FALSE) /\ RemoteNew

RemoteSpec == RemoteInit /\ [][RemoteNext]_vars

LenInit == GetterNew(FALSE) /\ LenNew

LenSpec == LenInit /\ [][RemoteLen]_vars

NewInit == NewArgs /\ RemoteParked

NewSpec == NewInit /\ [][GetterNewCall]_vars

WrapNext ==
    \/ \E t \in Queries, local \in BOOLEAN : Make(t, local)
    \/ Take

WrapInit == GetterNew(FALSE) /\ RemoteParked

WrapSpec == WrapInit /\ [][WrapNext]_vars

BuildNext ==
    \/ \E os \in [1..Len(builder.shards) -> Ports] : Build(os)
    \/ BuildExclusive
    \/ \E port \in Ports : WithLocalPort(port)
    \/ IntoExclusive
    \/ Clone
    \/ Columns
    \/ RemoteNext

BuildInit == GetterNew(FALSE) /\ BuilderNew

BuildSpec == BuildInit /\ [][BuildNext]_vars

\* Both clients together. They share no state, so every property of one is
\* stated under its own specification above.
Init == (\E gen \in BOOLEAN : GetterNew(gen)) /\ RemoteNew

Next == GetterNext \/ RemoteNext \/ BuildNext \/ GetterNewCall \/ WrapNext

Spec == Init /\ [][Next]_vars

\* a reply that is not stale for the call in progress: an error, or ts >= last_ts
FreshReplies == {r \in FindAndReplies : r.tag = "err" \/ r.ts >= last_ts}

\* The backlog eventually answers a probe with an error or a timestamp >= last_ts
\* (shard convergence), and the calling thread keeps running.
GetterFairSpec ==
    /\ GetterSpec
    /\ WF_vars(MatchRes)
    /\ SF_vars(\E r \in FreshReplies : FindAnd(r))

(***************************************************************************)
(* Claims about Getter                                                     *)
(***************************************************************************)
InCall == gop = "transactional_lookup"
Returned == InCall /\ gpc = "idle"
AtStale == gpc = "match" /\ res.tag = "ok" /\ res.ts < last_ts
AtFresh == gpc = "match" /\ res.tag = "ok" /\ res.ts >= last_ts
AtErr == gpc = "match" /\ res.tag = "err"

\* C1: the timestamps of successive successful transactional_lookup results
\* never strictly decrease: each accepted timestamp is >= the one before it.
C1_NonDecreasing ==
    /\ Len(ok_hist) = 2 => ok_hist[1] <= ok_hist[2]
    /\ (Returned /\ gret.tag = "ok") =>
           /\ ok_hist # <<>>
           /\ gret.token.ts = ok_hist[Len(ok_hist)]

C1_Witness ==
    /\ Returned /\ gret.tag = "ok" /\ stale > 0
    /\ Len(ok_hist) = 2 /\ ok_hist[1] < ok_hist[2]

\* C2: an observation with ts < last_ts is discarded: last_ts is unchanged, no
\* token is generated, nothing is returned (neither result nor error) and the
\* backlog is probed again.
C2_StaleDiscarded ==
    [][AtStale =>
          /\ last_ts' = last_ts
          /\ gen_calls' = gen_calls
          /\ gret' = GNone
          /\ ok_hist' = ok_hist
          /\ gpc' = "probe"]_vars

C2_Witness ==
    /\ gpc = "probe" /\ stale > 0
    /\ res.tag = "ok" /\ res.ts < last_ts
    /\ gret = GNone /\ gen_calls = <<>>

\* C3: a reply (rows, ts) with ts >= last_ts (equality included) sets last_ts
\* to ts, generates exactly one token, for (ts, q), and returns (rows, token),
\* rows being empty when the backlog found no entry; after a successful call
\* last_ts is the timestamp of the returned token.
C3_Accept ==
    /\ [][AtFresh =>
            /\ last_ts' = res.ts
            /\ gen_calls' = <<(<<res.ts, gq>>)>>
            /\ gret' = GOk(IF res.found THEN res.rows ELSE <<>>,
                           [ts |-> res.ts, key |-> gq], TRUE)
            /\ gpc' = "idle"]_vars
    /\ []((Returned /\ gret.tag = "ok") =>
            /\ Len(gen_calls) = 1
            /\ gret.token = [ts |-> last_ts, key |-> gq])

C3_Witness ==
    /\ Returned /\ gret.tag = "ok"
    /\ res.ts = last_ts /\ Len(ok_hist) = 2 /\ ok_hist[1] = ok_hist[2]
    /\ ~res.found /\ gret.rows = <<>>
    /\ last_ts > MinTimestamp

\* C4: last_ts starts at the minimum timestamp and only the accept step of a
\* transactional_lookup changes it: every other operation and step leaves it
\* alone, and it never becomes smaller.
C4_LastTsFrame ==
    /\ last_ts = MinTimestamp
    /\ [][last_ts' # last_ts => (AtFresh /\ last_ts' = res.ts)]_vars
    /\ [][last_ts' >= last_ts]_vars

C4_Witness ==
    /\ last_ts > MinTimestamp
    /\ gop = "lookup" /\ gret.tag = "ok"
    /\ res.tag = "err"

\* C5: transactional_lookup on a view with no token generator returns
\* Unavailable at once: no probe, no token, last_ts unchanged.
C5_NoGenerator ==
    ~generator =>
        /\ gpc = "idle"
        /\ probes = 0
        /\ gen_calls = <<>>
        /\ res = NoReply
        /\ last_ts = MinTimestamp
        /\ InCall => gret = GErr

C5_Witness == ~generator /\ InCall /\ gret = GErr /\ gq = 1

\* C6: a backlog error on any probe ends the loop at once and is returned as
\* Unavailable: no retry, no token, last_ts unchanged.
C6_BacklogError ==
    /\ [][AtErr =>
            /\ gret' = GErr
            /\ gpc' = "idle"
            /\ last_ts' = last_ts
            /\ probes' = probes
            /\ gen_calls' = gen_calls]_vars
    /\ []((Returned /\ generator /\ gret.tag = "err") =>
            (res.tag = "err" /\ gen_calls = <<>>))

C6_Witness ==
    /\ Returned /\ generator /\ gret = GErr
    /\ stale > 0 /\ probes > 1
    /\ last_ts > MinTimestamp

\* C7: with a token generator, the call returns once the backlog answers some
\* probe with an error or a timestamp >= last_ts (which fairness assumes it
\* eventually does); it returns only on such a probe, and a stale observation
\* always leads to another probe, however many came before.
C7_Terminates ==
    /\ (gpc # "idle") ~> (gpc = "idle" /\ gret.tag \in {"ok", "err"})
    /\ [][(gpc # "idle" /\ gpc' = "idle") => (AtFresh \/ AtErr)]_vars
    /\ [][AtStale => gpc' = "probe"]_vars

C7_Witness ==
    /\ Returned /\ gret.tag = "ok"
    /\ stale >= 2 /\ probes >= 3

(***************************************************************************)
(* Claims about RemoteGetter                                               *)
(***************************************************************************)
NShards == Len(shards)
\* a call that takes the multi-shard branch and passes its assertion
MultiCall == NShards > 1 /\ AllSingle(rkeys)
\* the shards whose bucket is not empty
DueShards == {shard_by(rkeys[j][1], NShards) : j \in 1..Len(rkeys)}
SentConns == {sent[j].conn : j \in 1..Len(sent)}
SentKeys(j) == take(sent[j].msg).keys
NoSendFails == \A i \in DueShards : health[i + 1] # "fail"
CountIn(x, seq) == Cardinality({j \in 1..Len(seq) : seq[j] = x})

RECURSIVE KeyCopiesSent(_, _)
KeyCopiesSent(k, j) ==
    IF j = 0 THEN 0 ELSE CountIn(k, SentKeys(j)) + KeyCopiesSent(k, j - 1)

RECURSIVE GroupCopiesReplied(_, _)
GroupCopiesReplied(g, j) ==
    IF j = 0 THEN 0
    ELSE CountIn(g, NormalReply(sent[j].conn, SentKeys(j)))
             + GroupCopiesReplied(g, j - 1)

Groups ==
    {Rows(i, k) : i \in 0..(NShards - 1), k \in Keys}
        \cup {rret.rows[j] : j \in 1..Len(rret.rows)}

\* C8: in a multi-shard multi_lookup an Unavailable reply makes the overall
\* result Unavailable (no rows are returned) and does not stop the fan-out: every
\* shard due a request still gets it, the shards after the Unavailable one
\* included (only a transport failure, which aborts the call, ends it early).
C8_UnavailableNoShortCircuit ==
    (rop = "multi_lookup" /\ MultiCall) =>
        /\ \A i \in DueShards :
              (\A j \in DueShards : j < i => health[j + 1] # "fail")
                  => i \in SentConns
        /\ (NoSendFails /\ \E i \in DueShards : health[i + 1] = "err")
              => rret = RErr

C8_Witness ==
    /\ rop = "multi_lookup" /\ MultiCall
    /\ Len(sent) = 2
    /\ health[sent[1].conn + 1] = "err"
    /\ health[sent[2].conn + 1] = "ok"
    /\ rret = RErr

\* C9: in a multi-shard multi_lookup (not aborted by a transport failure) every
\* key of the input is sent in exactly one request, the one to shard
\* shard_by(key, shard count), each shard gets at most one request, and when
\* all shards reply Ok the result holds every reply group exactly once.
C9_KeysAndGroupsOnce ==
    (rop = "multi_lookup" /\ MultiCall /\ NoSendFails) =>
        /\ \A a, b \in 1..Len(sent) : a # b => sent[a].conn # sent[b].conn
        /\ \A a \in 1..Len(sent) : \A j \in 1..Len(SentKeys(a)) :
              shard_by(SentKeys(a)[j][1], NShards) = sent[a].conn
        /\ \A k \in Keys : KeyCopiesSent(k, Len(sent)) = CountIn(k, rkeys)
        /\ (\A i \in DueShards : health[i + 1] = "ok") =>
              /\ rret.tag = "ok"
              /\ \A g \in Groups :
                    CountIn(g, rret.rows) = GroupCopiesReplied(g, Len(sent))

C9_Witness ==
    /\ rop = "multi_lookup" /\ MultiCall
    /\ Len(rkeys) = 2 /\ rkeys[1] # rkeys[2]
    /\ Len(sent) = 2
    /\ rret.tag = "ok" /\ Len(rret.rows) = 2 /\ rret.rows[1] # rret.rows[2]

\* C10: for the same key list and shard count transactional_multi_lookup
\* sends requests to exactly the shards multi_lookup sends to, with the same
\* per-shard key lists (WithToken for Normal), and yields Unavailable exactly
\* when multi_lookup does.
C10_SameFanOutAsMultiLookup ==
    (rop = "transactional_multi_lookup" /\ MultiCall) =>
        LET ml == Call("Normal", rkeys, FALSE)
        IN /\ Len(sent) = Len(ml.sent)
           /\ \A j \in 1..Len(sent) :
                 /\ j <= Len(ml.sent)
                 /\ sent[j].conn = ml.sent[j].conn
                 /\ SentKeys(j) = take(ml.sent[j].msg).keys
                 /\ take(sent[j].msg).tag = "WithToken"
           /\ (rret.tag = "err") <=> (ml.ret.tag = "err")

RECURSIVE SumSizes(_)
SumSizes(i) == IF i = 0 THEN 0 ELSE sizes[i] + SumSizes(i - 1)

NoShardFails == \A i \in 1..NShards : health[i] # "fail"

\* C11: len on a client with S shards sends exactly one Size request to each of
\* the S shards (one request when S = 1), request i on connection i, and
\* returns the sum of the S Size replies (when no send fails).
C11_LenSumsAllShards ==
    (rop = "len" /\ NoShardFails) =>
        /\ Len(sent) = NShards
        /\ \A j \in 1..Len(sent) :
              /\ sent[j].conn = j - 1
              /\ take(sent[j].msg) = [tag |-> "Size", target |-> <<node, j - 1>>]
        /\ rret.tag = "len"
        /\ rret.n = SumSizes(NShards)

C11_Witness ==
    /\ rop = "len" /\ NShards = 3
    /\ sizes = <<2, 1, 2>>
    /\ rret.tag = "len" /\ rret.n = 5

\* the shard a single-key call for the caller's key goes to
KeyShard == IF NShards = 1 THEN 0 ELSE shard_by(rkeys[1][1], NShards)

\* what the single-key form must return given the multi form's outcome
FirstOf(mret) ==
    /\ (mret.tag = "err") <=> (rret.tag = "err")
    /\ (mret.tag = "panic") <=> (rret.tag = "panic")
    /\ mret.tag = "ok" =>
          /\ Len(mret.rows) = 1
          /\ rret = [tag |-> "ok", rows |-> mret.rows[1]]

\* C12: lookup(key, block) sends the requests multi_lookup([key], block) sends,
\* is Unavailable exactly when that is, and otherwise returns its first (only)
\* group, the key's row set on its shard; transactional_lookup(key) relates to
\* transactional_multi_lookup([key]) the same way.
C12_SingleKeyForms ==
    /\ rop = "lookup" =>
          LET ml == Call("Normal", <<rkeys[1]>>, rblock)
          IN /\ sent = ml.sent
             /\ FirstOf(ml.ret)
             /\ rret.tag = "ok" => rret.rows = <<KeyShard, rkeys[1]>>
    /\ rop = "transactional_lookup" =>
          LET tml == Call("WithToken", <<rkeys[1]>>, FALSE)
          IN /\ sent = tml.sent
             /\ FirstOf(tml.ret)
             /\ rret.tag = "ok" => rret.rows = <<(<<KeyShard, rkeys[1]>>), "token">>

C12_Witness ==
    /\ rop = "lookup" /\ rblock
    /\ NShards = 3 /\ rkeys = <<(<<1>>)>>
    /\ Len(sent) = 1 /\ sent[1].conn = 1
    /\ rret = [tag |-> "ok", rows |-> <<1, <<1>>>>]


\* the connections a client holds are the cache's connections for its shard
\* addresses, position by position
FromCache(client) ==
    /\ Len(client.shards) = Len(client.shard_addrs)
    /\ \A i \in 1..Len(client.shards) :
          client.shards[i] = rpcs[client.shard_addrs[i][1]]

\* the client the caller holds now
Current ==
    [node |-> node, columns |-> columns, shards |-> shards,
     shard_addrs |-> shard_addrs, exclusivity |-> exclusivity]

\* a step that is a call of RemoteGetterBuilder::build
BuildStep == rop' = "build" /\ builds' = builds + 1

\* C13: over any sequence of shared builds against one cache, a connection is
\* opened only for an address the cache misses and is inserted under that
\* address; an occupied entry is never replaced or removed; no address ever has
\* more than one connection opened for it; and every client built (the current
\* one and a kept clone of an earlier one) holds, at position i, the cache's
\* connection for its i-th shard address.
C13_SharedBuildsUseCache ==
    [][ /\ \A a \in Addrs :
             /\ rpcs[a] # NoConn => rpcs'[a] = rpcs[a]
             /\ rpcs'[a] # rpcs[a] =>
                   /\ BuildStep
                   /\ rpcs'[a].addr = a
                   /\ rpcs'[a].id > nconn /\ rpcs'[a].id <= nconn'
             /\ opened'[a] <= 1
        /\ BuildStep =>
              nconn' - nconn = Cardinality({a \in Addrs : rpcs'[a] # rpcs[a]})
        /\ exclusivity' = "shared" => FromCache(Current)'
        /\ kept'.exclusivity = "shared" => FromCache(kept)'
      ]_vars

\* a second build, after one port was chosen, served from the cache alone while
\* the clone of the first client shares both connections
C13_Witness ==
    /\ rop = "build" /\ builds = 2 /\ nconn = 2
    /\ exclusivity = "shared" /\ kept.exclusivity = "shared"
    /\ shard_addrs = <<(<<2, FALSE>>), (<<1, TRUE>>)>>
    /\ shards = kept.shards
    /\ shards[1].id = 1 /\ shards[2].id = 2
    /\ opened = [a \in Addrs |-> 1]

\* connection i of a client is a connection to its i-th shard address
Aligned(client) ==
    /\ Len(client.shards) = Len(client.shard_addrs)
    /\ \A i \in 1..Len(client.shards) :
          client.shards[i].addr = client.shard_addrs[i][1]

\* the operations on a built client
ClientOps ==
    {"len", "multi_lookup", "transactional_multi_lookup", "lookup",
     "transactional_lookup", "columns", "clone"}

\* C14: a remote client holds exactly one connection per entry of its shard
\* address list, in the same order, after build_exclusive, build and
\* into_exclusive; len, multi_lookup, transactional_multi_lookup, lookup,
\* transactional_lookup, columns and clone leave the connections and the
\* address list as they are, and a clone holds the same connections.
C14_OneConnectionPerShard ==
    [][ /\ exclusivity' # "none" => Aligned(Current)'
        /\ kept'.exclusivity # "none" => Aligned(kept)'
        /\ rop' \in ClientOps =>
              /\ shards' = shards
              /\ shard_addrs' = shard_addrs
        /\ rop' = "clone" => kept'.shards = shards /\ kept'.shard_addrs = shard_addrs
      ]_vars

\* a shared client of two shards served from one address, built on a cache
\* hit and a look-up done on it
C14_Witness ==
    /\ rop = "multi_lookup" /\ exclusivity = "shared"
    /\ shard_addrs = <<(<<1, TRUE>>), (<<1, TRUE>>)>>
    /\ Len(shards) = 2 /\ shards[1] = shards[2]
    /\ nconn = 1 /\ builds = 1
    /\ Len(sent) = 1

\* the connections the cache holds
Pooled == {rpcs[a] : a \in {b \in Addrs : rpcs[b] # NoConn}}

\* the connections numbered after n, in order
Fresh(conns, n) == \A i \in 1..Len(conns) : conns[i].id = n + i

\* C15: build_exclusive opens one fresh connection per shard address of the
\* builder and leaves the cache as it is, whatever the cache holds;
\* into_exclusive on a shared client returns a client with the same view id,
\* columns and shard address list whose connections are all freshly opened,
\* none of them a connection of the shared client or of the cache, and leaves
\* the cache as it is.
C15_ExclusiveBypassesCache ==
    [][ /\ (rop' = "build_exclusive" /\ builds' = builds + 1) =>
              /\ rpcs' = rpcs
              /\ rret' # RPanic =>
                    /\ shard_addrs' = builder.shards
                    /\ Aligned(Current)'
                    /\ Fresh(shards', nconn)
                    /\ nconn' = nconn + Len(builder.shards)
                    /\ \A i \in 1..Len(shards') : shards'[i] \notin Pooled
        /\ (rop' = "into_exclusive" /\ builds' = builds + 1) =>
              /\ rpcs' = rpcs
              /\ rret' # RPanic =>
                    /\ exclusivity' = "exclusive"
                    /\ node' = node /\ columns' = columns /\ shard_addrs' = shard_addrs
                    /\ Aligned(Current)'
                    /\ Fresh(shards', nconn)
                    /\ \A i \in 1..Len(shards') :
                          /\ shards'[i] \notin Pooled
                          /\ \A j \in 1..Len(shards) : shards'[i] # shards[j]
      ]_vars

\* a shared client over two addresses turned into an exclusive one: two new
\* connections while the cache still holds the two pooled ones
C15_Witness ==
    /\ rop = "into_exclusive" /\ exclusivity = "exclusive"
    /\ shard_addrs = <<(<<1, TRUE>>), (<<2, FALSE>>)>>
    /\ rpcs[1].id = 1 /\ rpcs[2].id = 2
    /\ shards[1].id = 3 /\ shards[2].id = 4
    /\ shards[1].addr = 1 /\ shards[2].addr = 2
    /\ nconn = 4

\* the shards Getter::new needs registered
Required == IF view.sharded THEN 0..(view.shards - 1) ELSE {0}

\* C16: Getter::new returns None when a required shard's backlog is not in
\* the readers map (every index below the shard count of a sharded view, shard
\* 0 alone of an unsharded one), and otherwise returns a Getter holding exactly
\* the handles registered for the required shards, in shard order, with
\* last_ts at the least timestamp.
C16_NewNeedsAllShards ==
    newret # "unbuilt" =>
        IF \E shard \in Required : <<view.node, shard>> \notin readers
        THEN newret = "none" /\ handle = NoHandle
        ELSE /\ newret = "some"
             /\ handle.tag = IF view.sharded THEN "Sharded" ELSE "Singleton"
             /\ Len(handle.getters) = Cardinality(Required)
             /\ \A shard \in Required : handle.getters[shard + 1] = rh(view.node, shard)
             /\ last_ts = MinTimestamp
             /\ generator = view.token_generator

\* a sharded view of three shards with the middle one missing: not ready
C16_Witness ==
    /\ newret = "none"
    /\ view.sharded /\ view.shards = 3
    /\ <<5, 0>> \in readers /\ <<5, 1>> \notin readers /\ <<5, 2>> \in readers

\* C17: for either value of the local flag, make(t, local) followed by one take
\* returns a value equal to t, and make(t, local) is the Local variant exactly
\* when local is true.
C17_MakeTakeRoundTrip ==
    /\ lon.state = "made" =>
          /\ is_local(lon.w) = lon.local
          /\ lon.w.variant = IF lon.local THEN "Local" ELSE "Not"
    /\ lon.state = "taken" => lon.out = lon.t

\* a two-key blocking Normal query boxed for an in-process endpoint and taken
C17_Witness ==
    /\ lon.state = "taken" /\ lon.local
    /\ lon.t = Normal(<<5, 1>>, <<(<<0>>), (<<0, 1>>)>>, TRUE)
    /\ lon.out = lon.t

\* the shards a call sends to unless it is aborted: shard 0 of a single-shard
\* client, the shards with keys for multi_lookup, every shard otherwise
Contacted ==
    IF NShards = 1 THEN {0}
    ELSE IF rop = "multi_lookup" THEN DueShards
    ELSE 0..(NShards - 1)

\* the contacted shards whose send fails
Failing == {i \in Contacted : health[i + 1] = "fail"}

\* C18: a transport failure on a per-shard send aborts len, multi_lookup and
\* transactional_multi_lookup: the call returns nothing (neither rows nor
\* Unavailable), the failed request is the last one sent, and no shard after
\* the failing one gets a request; without such a failure the call returns.
C18_TransportFailureAborts ==
    (/\ rop \in {"len", "multi_lookup", "transactional_multi_lookup"}
     /\ rop = "len" \/ NShards = 1 \/ AllSingle(rkeys)) =>
        IF Failing = {}
        THEN rret.tag \in {"ok", "err", "len"}
        ELSE /\ rret = RPanic
             /\ sent # <<>>
             /\ sent[Len(sent)].conn \in Failing
             /\ \A j \in 1..Len(sent), i \in Failing : sent[j].conn <= i

\* the send to the second of three shards fails: the third never gets its keys
C18_Witness ==
    /\ rop = "multi_lookup" /\ NShards = 3
    /\ rkeys = <<(<<1>>), (<<2>>)>>
    /\ health = <<"ok", "fail", "ok">>
    /\ rret = RPanic
    /\ Len(sent) = 1 /\ sent[1].conn = 1

\* C19: a multi-shard multi_lookup that no transport failure aborts sends
\* exactly one Normal request to each shard whose bucket has keys and none to a
\* shard whose bucket is empty; with no keys it sends nothing and returns the
\* empty Ok result; every request carries the caller's block flag.
C19_OneRequestPerNonEmptyBucket ==
    (rop = "multi_lookup" /\ MultiCall /\ NoSendFails) =>
        /\ \A i \in 0..(NShards - 1) :
              Cardinality({j \in 1..Len(sent) : sent[j].conn = i})
                  = IF i \in DueShards THEN 1 ELSE 0
        /\ \A j \in 1..Len(sent) :
              /\ take(sent[j].msg).tag = "Normal"
              /\ take(sent[j].msg).block = rblock
              /\ SentKeys(j) # <<>>
        /\ rkeys = <<>> => sent = <<>> /\ rret = ROk(<<>>)

\* two keys of shard 0 in a blocking look-up over three shards: one request
C19_Witness ==
    /\ rop = "multi_lookup" /\ rblock /\ NShards = 3
    /\ rkeys = <<(<<0>>), (<<0>>)>>
    /\ Len(sent) = 1 /\ sent[1].conn = 0
    /\ take(sent[1].msg).block
    /\ rret.tag = "ok"

\* the keys of the call that shard i serves, in the order the caller gave them
KeysOf(i) ==
    LET Mine(key) == shard_by(key[1], NShards) = i
    IN SelectSeq(rkeys, Mine)

\* the replies of the shards 0..i, one after the other
RECURSIVE RepliesUpTo(_)
RepliesUpTo(i) ==
    IF i < 0 THEN <<>> ELSE RepliesUpTo(i - 1) \o NormalReply(i, KeysOf(i))

\* C20: in a multi-shard multi_lookup the requests go out in ascending shard
\* index, each carrying its shard's keys in the caller's order, and an Ok result
\* is the shards' replies concatenated in ascending shard index, whatever the
\* order of the keys in the call.
C20_ShardAscendingOrder ==
    (rop = "multi_lookup" /\ MultiCall) =>
        /\ \A j \in 1..Len(sent), k \in 1..Len(sent) :
              j < k => sent[j].conn < sent[k].conn
        /\ \A j \in 1..Len(sent) : SentKeys(j) = KeysOf(sent[j].conn)
        /\ rret.tag = "ok" => rret.rows = RepliesUpTo(NShards - 1)

\* keys given as 1, 0 to two shards: the rows come back as 0's, then 1's
C20_Witness ==
    /\ rop = "multi_lookup" /\ NShards = 2
    /\ rkeys = <<(<<1>>), (<<0>>)>>
    /\ Len(sent) = 2 /\ sent[1].conn = 0 /\ sent[2].conn = 1
    /\ rret = ROk(<<Rows(0, <<0>>), Rows(1, <<1>>)>>)

\* the connections a step put into the cache
NewlyOpened == {rpcs'[a] : a \in {b \in Addrs : rpcs'[b] # rpcs[b]}}

\* C21: within one call of build every newly opened connection is bound to the
\* same local port: the builder's local_port when with_local_port set one,
\* whatever ports the cached connections it also collects are bound to;
\* otherwise the port the first connection opened in that call was bound to.
C21_OnePortPerBuild ==
    [][BuildStep =>
          /\ \A c \in NewlyOpened, d \in NewlyOpened :
                /\ c.port = d.port
                /\ c.port \in Ports
                /\ d.id = nconn + 1 => c.port = d.port
          /\ builder.local_port # NoPort =>
                \A c \in NewlyOpened : c.port = builder.local_port
      ]_vars

\* a build with no preferred port that opened two connections, both on port 2
C21_Witness ==
    /\ rop = "build" /\ builds = 1 /\ builder.local_port = NoPort
    /\ exclusivity = "shared" /\ Len(shards) = 2
    /\ shards[1].id = 1 /\ shards[2].id = 2
    /\ shards[1].addr = 2 /\ shards[2].addr = 1
    /\ shards[1].port = 2 /\ shards[2].port = 2

\* C22: every request of len, multi_lookup and transactional_multi_lookup (and
\* of the single-key forms built on them) is wrapped as Local exactly when the
\* connection it is sent on is an in-process one and as Not otherwise, on every
\* shard: the Local form never goes out on a networked connection.
C22_WrapperMatchesConnection ==
    \A j \in 1..Len(sent) :
        /\ sent[j].conn + 1 \in 1..Len(shards)
        /\ is_local(sent[j].msg) = shards[sent[j].conn + 1].is_local
        /\ sent[j].msg.variant = "Local" => shards[sent[j].conn + 1].is_local
        /\ take(sent[j].msg).tag \in {"Size", "Normal", "WithToken"}

\* a transactional look-up over an in-process shard 0 and a networked shard 1
C22_Witness ==
    /\ rop = "transactional_multi_lookup" /\ NShards = 2
    /\ shards[1].is_local /\ ~shards[2].is_local
    /\ Len(sent) = 2
    /\ sent[1].conn = 0 /\ sent[1].msg.variant = "Local"
    /\ sent[2].conn = 1 /\ sent[2].msg.variant = "Not"

\* C23: on a client of several shards, multi_lookup and
\* transactional_multi_lookup given a key that is not one value long panic on
\* the assertion with no request sent; on a client of one shard keys of any
\* length go, all of them and in the caller's order, in one request to shard 0,
\* and the call returns that shard's reply, rows or Err(()), as it is.
C23_KeyArity ==
    rop \in {"multi_lookup", "transactional_multi_lookup"} =>
        /\ (NShards > 1 /\ \E j \in 1..Len(rkeys) : Len(rkeys[j]) # 1) =>
              sent = <<>> /\ rret = RPanic
        /\ NShards = 1 =>
              /\ Len(sent) = 1
              /\ sent[1].conn = 0
              /\ take(sent[1].msg).keys = rkeys
              /\ take(sent[1].msg).tag =
                    IF rop = "multi_lookup" THEN "Normal" ELSE "WithToken"
              /\ health[1] = "ok" =>
                    rret = ROk(IF rop = "multi_lookup" THEN NormalReply(0, rkeys)
                               ELSE WithTokenReply(0, rkeys))
              /\ health[1] = "err" => rret = RErr
              /\ health[1] = "fail" => rret = RPanic

\* a two-value key given to a transactional look-up over two healthy shards
C23_Witness ==
    /\ rop = "transactional_multi_lookup" /\ NShards = 2
    /\ rkeys = <<(<<1>>), (<<0, 1>>)>>
    /\ health = <<"ok", "ok">>
    /\ sent = <<>> /\ rret = RPanic

\* C24: every request a remote client sends names the target (node, i), node
\* being the client's view and i the index of the connection the request goes
\* out on, with 0 <= i < number of connections (i = 0 on a client of one
\* shard): no request is sent on a connection other than its target's shard.
C24_TargetIsConnectionIndex ==
    \A j \in 1..Len(sent) :
        /\ sent[j].conn \in 0..(NShards - 1)
        /\ take(sent[j].msg).target = <<node, sent[j].conn>>
        /\ NShards = 1 => take(sent[j].msg).target = <<node, 0>>

\* len over three shards: the third Size asks for (node, 2) on connection 2
C24_Witness ==
    /\ rop = "len" /\ NShards = 3
    /\ Len(sent) = 3
    /\ sent[3].conn = 2
    /\ take(sent[3].msg) = [tag |-> "Size", target |-> <<5, 2>>]
    /\ rret.tag = "len"
=============================================================================
